---- MODULE Spec2Model ----
(***************************************************************************)
(* headercount: one run of main() as a state machine.                      *)
(*                                                                         *)
(*   parse    get_flat_includes_lists: every input file is read line by    *)
(*            line through iter_includes / Include.__new__                 *)
(*   deep     _get_deep_includes_lists: _build_include_map, then the       *)
(*            stack loop, one action per iteration of `while stack`        *)
(*   prune    prune_includes_lists, in place on the returned mapping       *)
(*   count    the Counters and their sum                                   *)
(*                                                                         *)
(* Strings are sequences of one-character strings, so that lstrip, split,  *)
(* the delimiter test of Include and unquoted() are computed as the code   *)
(* computes them.                                                          *)
(***************************************************************************)
EXTENDS Integers, Sequences, FiniteSets, TLC

(***************************************************************************)
(* Bounds of the model.                                                    *)
(***************************************************************************)
\* input files of one run
MaxFiles == 3
\* include lines read from one file
MaxPerFile == 2
\* include lines read in one run, all files together
MaxIncludes == 3
\* names given to iter_input_files in one call
MaxArgs == 2

(***************************************************************************)
(* Characters, names and tokens.                                           *)
(***************************************************************************)
Q == "\""

Whitespace == {" ", "\t", "\n"}

INCLUDE == <<"i", "n", "c", "l", "u", "d", "e">>

NameA == <<"a", ".", "c">>
NameB == <<"b", ".", "h">>
NameC == <<"c", ".", "h">>
NameV == <<"v">>

Quoted(n) == <<Q>> \o n \o <<Q>>
Angled(n) == <<"<">> \o n \o <<">">>

\* tokens a file of the input may carry after `include`
WrappedTokens == {Quoted(NameB), Quoted(NameC), Angled(NameB), Angled(NameV)}
OtherTokens == {NameB, <<"<">> \o NameB \o <<Q>>, <<Q>> \o NameB \o <<">">>,
                <<Q>>, <<"<">>}
Tokens == WrappedTokens \cup OtherTokens

\* the paths the file collection may hand over; two of them share a basename
Path(d, n) == [dir |-> d, name |-> n]
Paths == {Path("src", NameA), Path("src", NameB), Path("src", NameC),
          Path("lib", NameB)}

(***************************************************************************)
(* The lines a file may hold.  `text` is what the parser reads.  `kind`    *)
(* and `token` describe how the line was put together and are read by the  *)
(* properties only:                                                        *)
(*   "plain"      first non-blank character is not `#` (or the line is     *)
(*                blank)                                                   *)
(*   "directive"  `#` followed by nothing or by a first word other than    *)
(*                `include`                                                *)
(*   "include"    `#`, `include`, then `token` as the next word            *)
(*   "noarg"      `#include` and nothing after it                          *)
(***************************************************************************)
IncludeText(indent, gap, tok, trail) ==
    indent \o <<"#">> \o gap \o INCLUDE \o <<" ">> \o tok \o trail \o <<"\n">>

IncludeLines ==
    {[text |-> IncludeText(<<>>, <<>>, t, <<>>), kind |-> "include", token |-> t]
        : t \in Tokens}
    \cup
    {[text |-> IncludeText(<<" ", "\t">>, <<" ">>, t, <<" ", "/", "/", " ", "x">>),
      kind |-> "include", token |-> t] : t \in {Quoted(NameC), NameB}}

PlainLines ==
    {[text |-> <<"i", "n", "t", " ", "x", ";", "\n">>, kind |-> "plain", token |-> <<>>],
     [text |-> <<" ", "\n">>, kind |-> "plain", token |-> <<>>],
     [text |-> <<"/", "/", "#">> \o INCLUDE \o <<" ">> \o Quoted(NameB) \o <<"\n">>,
      kind |-> "plain", token |-> <<>>]}

DirectiveLines ==
    {[text |-> <<"#", "d", "e", "f", "i", "n", "e", " ", "X", "\n">>,
      kind |-> "directive", token |-> <<>>],
     [text |-> <<"#", "\n">>, kind |-> "directive", token |-> <<>>],
     [text |-> <<" ", "#", " ", "\n">>, kind |-> "directive", token |-> <<>>],
     [text |-> <<"#">> \o INCLUDE \o Angled(NameV) \o <<"\n">>,
      kind |-> "directive", token |-> <<>>]}

NoArgLines ==
    {[text |-> <<"#">> \o INCLUDE \o <<"\n">>, kind |-> "noarg", token |-> <<>>]}

Lines == IncludeLines \cup PlainLines \cup DirectiveLines \cup NoArgLines

\* Runs over several files draw their lines from these: a well-formed include
\* line per wrapped token, one malformed one, one line of code.  Runs over
\* one file draw from all of Lines.
BasicLines ==
    {l \in Lines : /\ l.kind = "include"
                   /\ l.token \in WrappedTokens \cup {NameB}
                   /\ l.text = IncludeText(<<>>, <<>>, l.token, <<>>)}
    \cup {l \in PlainLines : l.text[1] = "i"}

LinesOf(files) == IF Len(files) <= 1 THEN Lines ELSE BasicLines

(***************************************************************************)
(* str.lstrip(), str.startswith('#'), str.split()                          *)
(***************************************************************************)
RECURSIVE Lstrip(_)
Lstrip(s) ==
    IF s = <<>> THEN s
    ELSE IF Head(s) \in Whitespace THEN Lstrip(Tail(s))
    ELSE s

StartsWithHash(s) == Len(s) >= 1 /\ s[1] = "#"

RECURSIVE SplitFrom(_, _, _)
SplitFrom(s, word, parts) ==
    LET closed == IF word = <<>> THEN parts ELSE Append(parts, word) IN
    IF s = <<>> THEN closed
    ELSE IF Head(s) \in Whitespace THEN SplitFrom(Tail(s), <<>>, closed)
    ELSE SplitFrom(Tail(s), Append(word, Head(s)), parts)

Split(s) == SplitFrom(s, <<>>, <<>>)

(***************************************************************************)
(* class Include                                                           *)
(***************************************************************************)
\* Include.__new__ accepts the token (does not raise ValueError)
IncludeNew(result) ==
    LET is_system  == result[1] = "<" /\ result[Len(result)] = ">"
        is_regular == result[1] = Q /\ Q = result[Len(result)]
    IN  is_system \/ is_regular

is_system(self) == self[1] = "<"

unquoted(self) == SubSeq(self, 2, Len(self) - 1)

(***************************************************************************)
(* iter_includes, one line: what the loop body does with `text`.           *)
(***************************************************************************)
Continue == [op |-> "continue", arg |-> <<>>]
Yield(tok) == [op |-> "yield", arg |-> tok]
Raise(kind, tok) == [op |-> kind, arg |-> tok]

\* a variant that tests the line as read, leading whitespace and all
iter_includes_no_lstrip(text) ==
    LET line == text IN
    IF ~StartsWithHash(line) THEN Continue
    ELSE LET parts == Split(Tail(line)) IN
         IF Len(parts) < 1 THEN Raise("IndexError", <<>>)
         ELSE IF parts[1] # INCLUDE THEN Continue
         ELSE IF Len(parts) < 2 THEN Raise("IndexError", <<>>)
         ELSE IF ~IncludeNew(parts[2]) THEN Raise("ValueError", parts[2])
         ELSE Yield(parts[2])

iter_includes(text) ==
    LET line == Lstrip(text) IN
    IF ~StartsWithHash(line) THEN Continue
    ELSE LET parts == Split(Tail(line)) IN
         IF Len(parts) < 1 THEN Raise("IndexError", <<>>)
         ELSE IF parts[1] # INCLUDE THEN Continue
         ELSE IF Len(parts) < 2 THEN Raise("IndexError", <<>>)
         ELSE IF ~IncludeNew(parts[2]) THEN Raise("ValueError", parts[2])
         ELSE Yield(parts[2])

(***************************************************************************)
(* Python containers.  A dict is its keys in insertion order and a         *)
(* function on them; a set is a set, iterated in an order the program does *)
(* not choose.                                                             *)
(***************************************************************************)
DictEmpty == [keys |-> <<>>, at |-> <<>>]

Has(d, k) == k \in DOMAIN d.at

DictGet(d, k, default) == IF Has(d, k) THEN d.at[k] ELSE default

DictSet(d, k, v) ==
    IF Has(d, k) THEN [d EXCEPT !.at[k] = v]
    ELSE [keys |-> Append(d.keys, k), at |-> d.at @@ (k :> v)]

DictDel(d, k) ==
    [keys |-> SelectSeq(d.keys, LAMBDA x : x # k),
     at   |-> [x \in DOMAIN d.at \ {k} |-> d.at[x]]]

Range(s) == {s[i] : i \in DOMAIN s}

RECURSIVE Chain(_)
\* itertools.chain over a sequence of lists
Chain(lists) ==
    IF lists = <<>> THEN <<>> ELSE Head(lists) \o Chain(Tail(lists))

RECURSIVE Orderings(_)
\* every order in which the elements of a set may be enumerated
Orderings(S) ==
    IF S = {} THEN {<<>>}
    ELSE UNION {{<<x>> \o o : o \in Orderings(S \ {x})} : x \in S}

\* the values of a dict, in key order
Values(d) == [i \in DOMAIN d.keys |-> d.at[d.keys[i]]]

(***************************************************************************)
(* State.                                                                  *)
(***************************************************************************)
VARIABLES
    infiles,        \* the paths handed to get_includes_lists, in order
    inclusive,      \* get_includes_lists(paths, inclusive)
    pc,             \* "parse", "resolve", "prune", "count", "done";
                    \* "collect", "collected" while iter_input_files is studied
    outcome,        \* [op, arg]: the exception that ended the run, or "none"
    cur,            \* index in infiles of the file being read
    yielded,        \* list(iter_includes(file_)) so far
    directives,     \* per file, the tokens of its include lines read so far
    flat_lists,     \* `includes` of get_flat_includes_lists
    include_map,
    stack,
    files_being_searched,
    inclusive_lists,
    returned,       \* the mapping as get_includes_lists returned it
    opts,           \* the keyword arguments of prune_includes_lists
    total_count,
    printed,
    call,           \* iter_input_files(args, recursive, exclude, exclude_dir)
    pending,        \* the arguments still to visit, or the stack of the deep walk
    found           \* the paths iter_input_files has yielded, in order

vars == <<infiles, inclusive, pc, outcome, cur, yielded, directives,
          flat_lists, include_map, stack, files_being_searched,
          inclusive_lists, returned, opts, total_count, printed,
          call, pending, found>>

parseVars == <<cur, yielded, directives, flat_lists>>
deepVars == <<include_map, stack, files_being_searched, inclusive_lists>>
mainVars == <<returned, opts, total_count, printed>>
fileVars == <<call, pending, found>>

\* the file collection is not under study: main holds its result in infiles
NoCall == [args |-> <<>>, recursive |-> FALSE, exclude |-> {}, exclude_dir |-> {}]

NoError == [op |-> "none", arg |-> <<>>]

InputOrders ==
    UNION {Orderings(S) : S \in {T \in SUBSET Paths : Cardinality(T) <= MaxFiles}}

Init ==
    /\ infiles \in InputOrders
    /\ inclusive \in BOOLEAN
    /\ pc = "parse"
    /\ outcome = NoError
    /\ cur = 1
    /\ yielded = <<>>
    /\ directives = [p \in Range(infiles) |-> <<>>]
    /\ flat_lists = DictEmpty
    /\ include_map = <<>>
    /\ stack = <<>>
    /\ files_being_searched = {}
    /\ inclusive_lists = DictEmpty
    /\ returned = DictEmpty
    /\ opts = [headers |-> FALSE, system |-> FALSE, duplicates |-> FALSE]
    /\ total_count = DictEmpty
    /\ printed = <<>>
    /\ call = NoCall
    /\ pending = <<>>
    /\ found = <<>>

(***************************************************************************)
(* get_flat_includes_lists                                                 *)
(***************************************************************************)
RECURSIVE SumLen(_)
SumLen(lists) == IF lists = <<>> THEN 0 ELSE Len(Head(lists)) + SumLen(Tail(lists))

DirectivesRead == SumLen([i \in DOMAIN infiles |-> directives[infiles[i]]])

\* an exception leaves get_flat_includes_lists: its locals are gone
Unwound ==
    /\ cur' = 1
    /\ yielded' = <<>>
    /\ flat_lists' = DictEmpty
    /\ directives' = [p \in Range(infiles) |-> <<>>]

\* `for line in file_`: the file being read holds `l` as its next line
ReadLine(l) ==
    LET r == iter_includes(l.text) IN
    /\ pc = "parse"
    /\ cur <= Len(infiles)
    /\ l.kind = "include" => /\ DirectivesRead < MaxIncludes
                             /\ Len(directives[infiles[cur]]) < MaxPerFile
    /\ IF r.op \in {"continue", "yield"}
       THEN /\ yielded' = IF r.op = "yield" THEN Append(yielded, r.arg) ELSE yielded
            /\ directives' =
                   IF l.kind = "include"
                   THEN [directives EXCEPT ![infiles[cur]] = Append(@, l.token)]
                   ELSE directives
            /\ UNCHANGED <<pc, outcome, cur, flat_lists>>
       ELSE /\ outcome' = r
            /\ pc' = "done"
            /\ Unwound
    /\ UNCHANGED <<fileVars, infiles, inclusive, deepVars, mainVars>>

ParseLine == \E l \in LinesOf(infiles) : ReadLine(l)

\* the file is exhausted: includes[path] = list(...), next path
ParseEOF ==
    /\ pc = "parse"
    /\ cur <= Len(infiles)
    /\ flat_lists' = DictSet(flat_lists, infiles[cur], yielded)
    /\ cur' = cur + 1
    /\ yielded' = <<>>
    /\ UNCHANGED <<fileVars, infiles, inclusive, pc, outcome, directives, deepVars, mainVars>>

\* get_includes_lists with inclusive false: the flat lists are the result
ReturnFlat ==
    /\ pc = "parse"
    /\ cur > Len(infiles)
    /\ ~inclusive
    /\ returned' = flat_lists
    /\ pc' = "prune"
    /\ UNCHANGED <<fileVars, infiles, inclusive, outcome, parseVars, deepVars,
                   opts, total_count, printed>>

(***************************************************************************)
(* _build_include_map                                                      *)
(***************************************************************************)
Candidates(include, available_files) ==
    {path \in available_files : path.name = unquoted(include)}

\* a variant that raises only from three candidates on
AmbiguousIncludes_more_than_two(includes, available_files) ==
    {include \in includes : Cardinality(Candidates(include, available_files)) > 2}

\* the includes for which the loop raises AmbiguousName when it meets them
AmbiguousIncludes(includes, available_files) ==
    {include \in includes : Cardinality(Candidates(include, available_files)) > 1}

\* `result` when the loop ends without raising
build_include_map(includes, available_files) ==
    [include \in {i \in includes : Candidates(i, available_files) # {}}
        |-> CHOOSE path \in Candidates(include, available_files) : TRUE]

\* set(itertools.chain.from_iterable(flat_lists.values()))
AllIncludes(flat) == UNION {Range(flat.at[p]) : p \in DOMAIN flat.at}

(***************************************************************************)
(* _get_deep_includes_lists: the closures and one iteration of the loop.   *)
(* A stack frame is a path and the number of includes its iterator has     *)
(* handed out.                                                             *)
(***************************************************************************)
Frame(path) == [path |-> path, pos |-> 0]

\* a variant that chains the indirect includes before the direct ones
collect_all_includes_indirect_first(flat, map, lists, path) ==
    LET direct_includes == flat.at[path]
        resolved == SelectSeq(direct_includes, LAMBDA d : d \in DOMAIN map)
        indirect_includes ==
            [i \in DOMAIN resolved |-> DictGet(lists, map[resolved[i]], <<>>)]
    IN  Chain(indirect_includes) \o direct_includes

collect_all_includes(flat, map, lists, path) ==
    LET direct_includes == flat.at[path]
        resolved == SelectSeq(direct_includes, LAMBDA d : d \in DOMAIN map)
        indirect_includes ==
            [i \in DOMAIN resolved |-> DictGet(lists, map[resolved[i]], <<>>)]
    IN  direct_includes \o Chain(indirect_includes)

\* a variant without the test for a file in progress
is_to_be_searched_no_cycle_guard(map, lists, searched, include) ==
    /\ include \in DOMAIN map
    /\ ~Has(lists, map[include])

is_to_be_searched(map, lists, searched, include) ==
    /\ include \in DOMAIN map
    /\ ~Has(lists, map[include])
    /\ map[include] \notin searched

\* a variant that starts the loop with no file marked as being searched
DeepStart_none_in_progress(flat) ==
    [stack |-> [i \in DOMAIN flat.keys |-> Frame(flat.keys[i])],
     files_being_searched |-> {},
     inclusive_lists |-> DictEmpty,
     raised |-> NoError]

\* st = [stack, files_being_searched, inclusive_lists, raised]
DeepStart(flat) ==
    [stack |-> [i \in DOMAIN flat.keys |-> Frame(flat.keys[i])],
     files_being_searched |-> Range(flat.keys),
     inclusive_lists |-> DictEmpty,
     raised |-> NoError]

\* a variant that pops the frame and leaves the file marked as being searched
DeepStep_pop_without_remove(flat, map, st) ==
    LET top == st.stack[Len(st.stack)]
        path == top.path
        rest == SubSeq(st.stack, 1, Len(st.stack) - 1)
    IN
    IF top.pos >= Len(flat.at[path])
    THEN \* next() gave None
         IF path \in st.files_being_searched
         THEN [stack |-> rest,
               files_being_searched |-> st.files_being_searched,
               inclusive_lists |->
                   DictSet(st.inclusive_lists, path,
                           collect_all_includes(flat, map, st.inclusive_lists, path)),
               raised |-> NoError]
         ELSE [st EXCEPT !.raised = Raise("KeyError", <<>>),
                         !.inclusive_lists =
                             DictSet(st.inclusive_lists, path,
                                 collect_all_includes(flat, map, st.inclusive_lists, path))]
    ELSE LET include == flat.at[path][top.pos + 1]
             advanced == Append(rest, [top EXCEPT !.pos = top.pos + 1])
         IN  IF is_to_be_searched(map, st.inclusive_lists,
                                  st.files_being_searched, include)
             THEN [st EXCEPT
                     !.stack = Append(advanced, Frame(map[include])),
                     !.files_being_searched = @ \cup {map[include]}]
             ELSE [st EXCEPT !.stack = advanced]

\* one iteration of the loop on st
DeepStep(flat, map, st) ==
    LET top == st.stack[Len(st.stack)]
        path == top.path
        rest == SubSeq(st.stack, 1, Len(st.stack) - 1)
    IN
    IF top.pos >= Len(flat.at[path])
    THEN \* next() gave None
         IF path \in st.files_being_searched
         THEN [stack |-> rest,
               files_being_searched |-> st.files_being_searched \ {path},
               inclusive_lists |->
                   DictSet(st.inclusive_lists, path,
                           collect_all_includes(flat, map, st.inclusive_lists, path)),
               raised |-> NoError]
         ELSE [st EXCEPT !.raised = Raise("KeyError", <<>>),
                         !.inclusive_lists =
                             DictSet(st.inclusive_lists, path,
                                 collect_all_includes(flat, map, st.inclusive_lists, path))]
    ELSE LET include == flat.at[path][top.pos + 1]
             advanced == Append(rest, [top EXCEPT !.pos = top.pos + 1])
         IN  IF is_to_be_searched(map, st.inclusive_lists,
                                  st.files_being_searched, include)
             THEN [st EXCEPT
                     !.stack = Append(advanced, Frame(map[include])),
                     !.files_being_searched = @ \cup {map[include]}]
             ELSE [st EXCEPT !.stack = advanced]

RECURSIVE DeepRun(_, _, _)
\* the loop, from `st` until the stack is empty or an exception leaves it
DeepRun(flat, map, st) ==
    IF st.stack = <<>> \/ st.raised # NoError THEN st
    ELSE DeepRun(flat, map, DeepStep(flat, map, st))

\* _get_deep_includes_lists(flat_lists) when no include is ambiguous
get_deep_includes_lists(flat) ==
    DeepRun(flat, build_include_map(AllIncludes(flat), Range(flat.keys)),
            DeepStart(flat)).inclusive_lists

DeepState ==
    [stack |-> stack, files_being_searched |-> files_being_searched,
     inclusive_lists |-> inclusive_lists, raised |-> NoError]

\* a variant that builds the map from whatever files have been read so far
BuildIncludeMap_without_barrier ==
    /\ pc = "parse"
    /\ inclusive
    /\ LET includes == AllIncludes(flat_lists)
           files == Range(flat_lists.keys)
           start == DeepStart(flat_lists)
       IN  IF AmbiguousIncludes(includes, files) # {}
           THEN /\ \E include \in AmbiguousIncludes(includes, files) :
                      outcome' = Raise("AmbiguousName", include)
                /\ pc' = "done"
                /\ Unwound
                /\ UNCHANGED deepVars
           ELSE /\ include_map' = build_include_map(includes, files)
                /\ stack' = start.stack
                /\ files_being_searched' = start.files_being_searched
                /\ inclusive_lists' = start.inclusive_lists
                /\ pc' = "resolve"
                /\ UNCHANGED <<outcome, parseVars>>
    /\ UNCHANGED <<fileVars, infiles, inclusive, mainVars>>

\* get_includes_lists with inclusive true: the include map, then the stack
BuildIncludeMap ==
    /\ pc = "parse"
    /\ cur > Len(infiles)
    /\ inclusive
    /\ LET includes == AllIncludes(flat_lists)
           files == Range(flat_lists.keys)
           start == DeepStart(flat_lists)
       IN  IF AmbiguousIncludes(includes, files) # {}
           THEN /\ \E include \in AmbiguousIncludes(includes, files) :
                      outcome' = Raise("AmbiguousName", include)
                /\ pc' = "done"
                /\ Unwound
                /\ UNCHANGED deepVars
           ELSE /\ include_map' = build_include_map(includes, files)
                /\ stack' = start.stack
                /\ files_being_searched' = start.files_being_searched
                /\ inclusive_lists' = start.inclusive_lists
                /\ pc' = "resolve"
                /\ UNCHANGED <<outcome, parseVars>>
    /\ UNCHANGED <<fileVars, infiles, inclusive, mainVars>>

\* one iteration of `while stack`
ResolveStep ==
    /\ pc = "resolve"
    /\ stack # <<>>
    /\ LET st == DeepStep(flat_lists, include_map, DeepState) IN
       /\ stack' = st.stack
       /\ files_being_searched' = st.files_being_searched
       /\ inclusive_lists' = st.inclusive_lists
       /\ outcome' = st.raised
       /\ pc' = IF st.raised = NoError THEN "resolve" ELSE "done"
    /\ UNCHANGED <<fileVars, infiles, inclusive, include_map, parseVars, mainVars>>

\* the stack is empty: return inclusive_lists
ResolveReturn ==
    /\ pc = "resolve"
    /\ stack = <<>>
    /\ returned' = inclusive_lists
    /\ pc' = "prune"
    /\ UNCHANGED <<fileVars, infiles, inclusive, outcome, parseVars, deepVars,
                   opts, total_count, printed>>

(***************************************************************************)
(* main: prune_includes_lists, then the Counters.                          *)
(***************************************************************************)
HEADER_SUFFIXES ==
    {<<".", "h">>, <<".", "H">>, <<".", "h", "h">>, <<".", "h", "p">>,
     <<".", "h", "p", "p">>, <<".", "H", "P", "P">>, <<".", "h", "x", "x">>,
     <<".", "h", "+", "+">>, <<".", "i", "n", "l">>, <<".", "t", "c", "c">>,
     <<".", "i", "c", "c">>}

\* pathlib's PurePath.suffix
suffix(path) ==
    LET name == path.name
        dots == {i \in DOMAIN name : name[i] = "."}
        last == CHOOSE i \in dots : \A j \in dots : j <= i
    IN  IF dots = {} THEN <<>>
        ELSE IF 1 < last /\ last < Len(name) THEN SubSeq(name, last, Len(name))
        ELSE <<>>

\* the mapping main holds: the very dict get_includes_lists built
includes_lists == IF inclusive THEN inclusive_lists ELSE flat_lists

\* a variant that deletes nothing
RemoveHeaders_keep_all(d, files) == d

RECURSIVE RemoveHeaders(_, _)
\* `for file_ in files: if file_.suffix in HEADER_SUFFIXES: del ...`
RemoveHeaders(d, files) ==
    IF files = <<>> THEN d
    ELSE RemoveHeaders(IF suffix(Head(files)) \in HEADER_SUFFIXES
                       THEN DictDel(d, Head(files)) ELSE d,
                       Tail(files))

\* a variant that never goes through a set
Filtered_keep_duplicates(includes, system, duplicates) ==
    {IF system THEN SelectSeq(includes, LAMBDA i : ~is_system(i)) ELSE includes}

\* the lists `includes[:] = filtered` may leave in place of `includes`
Filtered(includes, system, duplicates) ==
    LET dropped(l) == IF system THEN SelectSeq(l, LAMBDA i : ~is_system(i)) ELSE l
    IN  IF duplicates
        THEN {dropped(o) : o \in Orderings(Range(includes))}
        ELSE {dropped(includes)}

\* the mappings prune_includes_lists may leave in place of `d`
prune_includes_lists(d, headers, system, duplicates) ==
    LET kept == IF headers THEN RemoveHeaders(d, d.keys) ELSE d
        K == DOMAIN kept.at
        all == UNION {Filtered(kept.at[k], system, duplicates) : k \in K}
    IN  IF system \/ duplicates
        THEN {[keys |-> kept.keys, at |-> f] :
                f \in {g \in [K -> all] :
                         \A k \in K : g[k] \in Filtered(kept.at[k], system, duplicates)}}
        ELSE {kept}

Prune ==
    /\ pc = "prune"
    /\ \E headers \in BOOLEAN, system \in BOOLEAN, duplicates \in BOOLEAN :
         /\ opts' = [headers |-> headers, system |-> system, duplicates |-> duplicates]
         /\ \E pruned \in prune_includes_lists(includes_lists, headers, system, duplicates) :
              IF inclusive
              THEN inclusive_lists' = pruned /\ UNCHANGED flat_lists
              ELSE flat_lists' = pruned /\ UNCHANGED inclusive_lists
    /\ pc' = "count"
    /\ UNCHANGED <<fileVars, infiles, inclusive, outcome, cur, yielded, directives,
                   include_map, stack, files_being_searched,
                   returned, total_count, printed>>

RECURSIVE CountAll_presence(_, _)
\* a variant that counts an include once however many lists hold it
CountAll_presence(includes, counter) ==
    IF includes = <<>> THEN counter
    ELSE CountAll_presence(Tail(includes), DictSet(counter, Head(includes), 1))

RECURSIVE CountAll(_, _)
\* sum(counters, Counter()): every occurrence counts, keys in order of first
\* appearance
CountAll(includes, counter) ==
    IF includes = <<>> THEN counter
    ELSE CountAll(Tail(includes),
                  DictSet(counter, Head(includes),
                          DictGet(counter, Head(includes), 0) + 1))

\* Counter.most_common(): a stable sort by descending count
most_common(counter) ==
    LET counts == {counter.at[k] : k \in DOMAIN counter.at}
        top == IF counts = {} THEN 0 ELSE CHOOSE c \in counts : \A x \in counts : x <= c
        with(c) == SelectSeq(counter.keys, LAMBDA k : counter.at[k] = c)
    IN  Chain([i \in 1..top |->
                 [j \in DOMAIN with(top + 1 - i) |->
                    [count |-> top + 1 - i, filename |-> with(top + 1 - i)[j]]]])

Count ==
    /\ pc = "count"
    /\ total_count' = CountAll(Chain(Values(includes_lists)), DictEmpty)
    /\ printed' = most_common(total_count')
    /\ pc' = "done"
    /\ UNCHANGED <<fileVars, infiles, inclusive, outcome, parseVars, deepVars, returned, opts>>

Next ==
    \/ ParseLine
    \/ ParseEOF
    \/ ReturnFlat
    \/ BuildIncludeMap
    \/ ResolveStep
    \/ ResolveReturn
    \/ Prune
    \/ Count

Spec == Init /\ [][Next]_vars

(***************************************************************************)
(* files.py: iter_input_files over a small directory tree.                 *)
(*                                                                         *)
(*   src/            a.c   b.h   build/                                    *)
(*   src/build/      c.h                                                   *)
(*   b.h/            a.c          (a directory with a header suffix)       *)
(*   c.h   n.txt                  (files beside src)                       *)
(*                                                                         *)
(* A path is the names of its directories and its own name.  a.c beside    *)
(* src does not exist.                                                     *)
(***************************************************************************)
SOURCE_SUFFIXES ==
    {<<".", "c">>, <<".", "C">>, <<".", "c", "c">>, <<".", "c", "p">>,
     <<".", "c", "p", "p">>, <<".", "C", "P", "P">>, <<".", "c", "x", "x">>,
     <<".", "c", "+", "+">>, <<".", "i">>, <<".", "i", "i">>}

CPP_SUFFIXES == HEADER_SUFFIXES \cup SOURCE_SUFFIXES

NameSrc == <<"s", "r", "c">>
NameBuild == <<"b", "u", "i", "l", "d">>
NameTxt == <<"n", ".", "t", "x", "t">>

FsPath(dir, name) == [dir |-> dir, name |-> name]

Directories ==
    {FsPath(<<>>, NameSrc), FsPath(<<NameSrc>>, NameBuild), FsPath(<<>>, NameB)}

RegularFiles ==
    {FsPath(<<NameSrc>>, NameA), FsPath(<<NameSrc>>, NameB),
     FsPath(<<NameSrc, NameBuild>>, NameC), FsPath(<<NameB>>, NameA),
     FsPath(<<>>, NameC), FsPath(<<>>, NameTxt)}

\* the names a call may be given
ArgPaths ==
    {FsPath(<<>>, NameSrc), FsPath(<<NameSrc>>, NameBuild), FsPath(<<>>, NameB),
     FsPath(<<NameSrc>>, NameA), FsPath(<<>>, NameC), FsPath(<<>>, NameTxt),
     FsPath(<<>>, NameA)}

\* the patterns of --exclude and of --exclude-dir a call may be given: *.h,
\* src/a.*, build, b.*
ExcludePatterns == {<< <<"*", ".", "h">> >>, <<NameSrc, <<"a", ".", "*">> >>}
ExcludeDirPatterns == {<<NameBuild>>, << <<"b", ".", "*">> >>}

is_dir(path) == path \in Directories

\* Path.iterdir(), as a set: the order is the file system's
iterdir(path) ==
    {p \in Directories \cup RegularFiles : p.dir = Append(path.dir, path.name)}

parts(path) == Append(path.dir, path.name)

RECURSIVE fnmatch(_, _)
\* fnmatch.fnmatchcase on one path component, for patterns of letters and `*`
fnmatch(name, pat) ==
    IF pat = <<>> THEN name = <<>>
    ELSE IF Head(pat) = "*"
         THEN \/ fnmatch(name, Tail(pat))
              \/ name # <<>> /\ fnmatch(Tail(name), pat)
    ELSE /\ name # <<>>
         /\ Head(name) = Head(pat)
         /\ fnmatch(Tail(name), Tail(pat))

\* PurePath.match with a relative pattern: the components are matched from
\* the right
match(path, pattern) ==
    LET ps == parts(path)
        off == Len(ps) - Len(pattern)
    IN  /\ off >= 0
        /\ \A i \in DOMAIN pattern : fnmatch(ps[off + i], pattern[i])

\* a variant for which no pattern matches
any_match_never(path, patterns) == FALSE

any_match(path, patterns) == \E pattern \in patterns : match(path, pattern)

\* an entry of the stack or of the arguments: the path and the directories
\* the walk listed to get to it
Entry(path, via) == [path |-> path, via |-> via]

Reverse(seq) == [i \in DOMAIN seq |-> seq[Len(seq) + 1 - i]]

Calls ==
    [args : UNION {[1..n -> ArgPaths] : n \in 0..MaxArgs},
     recursive : BOOLEAN,
     exclude : SUBSET ExcludePatterns,
     exclude_dir : SUBSET ExcludeDirPatterns]

FilesInit ==
    /\ call \in Calls
    /\ pending = IF call.recursive
                 THEN [i \in DOMAIN call.args |-> Entry(Reverse(call.args)[i], {})]
                 ELSE [i \in DOMAIN call.args |-> Entry(call.args[i], {})]
    /\ found = <<>>
    /\ pc = "collect"
    /\ infiles = <<>>
    /\ inclusive = FALSE
    /\ outcome = NoError
    /\ cur = 1
    /\ yielded = <<>>
    /\ directives = <<>>
    /\ flat_lists = DictEmpty
    /\ include_map = <<>>
    /\ stack = <<>>
    /\ files_being_searched = {}
    /\ inclusive_lists = DictEmpty
    /\ returned = DictEmpty
    /\ opts = [headers |-> FALSE, system |-> FALSE, duplicates |-> FALSE]
    /\ total_count = DictEmpty
    /\ printed = <<>>

pipelineVars == <<infiles, inclusive, outcome, parseVars, deepVars, mainVars>>

\* _iter_input_files_flat: one turn of `for arg in args`
IterFlat ==
    /\ pc = "collect"
    /\ ~call.recursive
    /\ pending # <<>>
    /\ LET e == Head(pending) IN
       /\ pending' = Tail(pending)
       /\ found' = IF is_dir(e.path) THEN found
                   ELSE IF /\ suffix(e.path) \in CPP_SUFFIXES
                           /\ ~any_match(e.path, call.exclude)
                        THEN Append(found, e)
                   ELSE found
    /\ UNCHANGED <<pc, call, pipelineVars>>

\* _iter_input_files_deep: one turn of `while stack`
IterDeep ==
    /\ pc = "collect"
    /\ call.recursive
    /\ pending # <<>>
    /\ LET e == pending[Len(pending)]
           rest == SubSeq(pending, 1, Len(pending) - 1)
       IN  IF is_dir(e.path)
           THEN /\ IF ~any_match(e.path, call.exclude_dir)
                   THEN \E order \in Orderings(iterdir(e.path)) :
                            pending' = rest \o
                                [i \in DOMAIN order |->
                                    Entry(order[i], e.via \cup {e.path})]
                   ELSE pending' = rest
                /\ found' = found
           ELSE /\ pending' = rest
                /\ found' = IF /\ suffix(e.path) \in CPP_SUFFIXES
                               /\ ~any_match(e.path, call.exclude)
                            THEN Append(found, e)
                            ELSE found
    /\ UNCHANGED <<pc, call, pipelineVars>>

\* the generator is exhausted
IterReturn ==
    /\ pc = "collect"
    /\ pending = <<>>
    /\ pc' = "collected"
    /\ UNCHANGED <<fileVars, pipelineVars>>

FilesNext == IterFlat \/ IterDeep \/ IterReturn

FilesSpec == FilesInit /\ [][FilesNext]_vars

(***************************************************************************)
(* Properties.                                                             *)
(***************************************************************************)
\* the resolver has returned and nothing has touched its result yet
Resolved == pc = "prune" /\ inclusive

Files == Range(infiles)

\* the input file an include names, if exactly one has that basename
Target(include) == CHOOSE p \in Files : p.name = unquoted(include)
Resolves(include) == Cardinality({p \in Files : p.name = unquoted(include)}) = 1

\* F includes G directly through a resolved include
Includes(F, G) ==
    \E i \in DOMAIN flat_lists.at[F] :
        Resolves(flat_lists.at[F][i]) /\ Target(flat_lists.at[F][i]) = G

RECURSIVE ReachedWithin(_, _)
\* the files reached from F by 1..n resolved includes
ReachedWithin(F, n) ==
    IF n = 0 THEN {}
    ELSE LET near == ReachedWithin(F, n - 1)
         IN  near \cup {G \in Files : Includes(F, G) \/ \E H \in near : Includes(H, G)}

Reaches(F, G) == G \in ReachedWithin(F, Len(infiles))

Acyclic == \A F \in Files : ~Reaches(F, F)

RECURSIVE Transitive(_, _)
\* F's direct includes, then the transitive list of every resolved one, in order
Transitive(F, fuel) ==
    LET direct == flat_lists.at[F]
        resolved == SelectSeq(direct, Resolves)
    IN  IF fuel = 0 THEN direct
        ELSE direct \o Chain([i \in DOMAIN resolved |->
                                 Transitive(Target(resolved[i]), fuel - 1)])

IsPrefix(s, t) == Len(s) <= Len(t) /\ SubSeq(t, 1, Len(s)) = s

(* C1: in inclusive mode on an acyclic include graph, whatever the order of *)
(* the input paths, the inclusive list of every file F is F's direct        *)
(* includes followed by the complete inclusive lists of the files its       *)
(* resolved direct includes map to, in the order they are listed.           *)
C1_InclusiveListIsTransitive ==
    (Resolved /\ Acyclic) =>
        \A F \in Files : inclusive_lists.at[F] = Transitive(F, Len(infiles))

(* C9: the inclusive lists the resolver computes for a set of files with    *)
(* their direct lists are the same for every order in which the files are   *)
(* enumerated.                                                              *)
C9_ListsIndependentOfOrder ==
    Resolved =>
        \A order \in Orderings(Files) :
            get_deep_includes_lists([keys |-> order, at |-> flat_lists.at]).at
                = inclusive_lists.at

(* C3: on any include graph the inclusive list of every file begins with    *)
(* the file's direct includes, at every moment it exists; when the resolver *)
(* has returned every input file has such a list (so with A including B and *)
(* B including A, A's list contains B).                                     *)
C3_DirectListIsPrefix ==
    (pc \in {"resolve", "prune"} /\ inclusive) =>
        /\ \A F \in DOMAIN inclusive_lists.at :
              IsPrefix(flat_lists.at[F], inclusive_lists.at[F])
        /\ pc = "prune" =>
              /\ DOMAIN inclusive_lists.at = Files
              /\ \A A \in Files, B \in Files :
                    (Includes(A, B) /\ Includes(B, A)) =>
                        \E x \in Range(inclusive_lists.at[A]) :
                            Resolves(x) /\ Target(x) = B

\* b.h and c.h include each other; one of the two lists got the other appended
C3_Witness_MutualInclusion ==
    /\ Resolved
    /\ \E A \in Files, B \in Files :
          /\ A # B
          /\ Includes(A, B) /\ Includes(B, A)
          /\ Len(inclusive_lists.at[B]) > Len(flat_lists.at[B])

(***************************************************************************)
(* The resolver on its own: _get_deep_includes_lists entered with any flat *)
(* lists the parser can return in which no include is ambiguous, the       *)
(* include map built and the stack filled (lines 62-86).  The loop runs on *)
(* as long as it has an iteration to make.                                 *)
(***************************************************************************)
ListsUpTo(n) == UNION {[1..k -> {t \in Tokens : IncludeNew(t)}] : k \in 0..n}

ParsedLists ==
    {f \in [Files -> ListsUpTo(MaxPerFile)] :
        SumLen([i \in DOMAIN infiles |-> f[infiles[i]]]) <= MaxIncludes}

ResolverInit ==
    /\ infiles \in InputOrders
    /\ inclusive = TRUE
    /\ pc = "resolve"
    /\ outcome = NoError
    /\ cur = Len(infiles) + 1
    /\ yielded = <<>>
    /\ directives \in ParsedLists
    /\ flat_lists = [keys |-> infiles, at |-> directives]
    /\ AmbiguousIncludes(AllIncludes(flat_lists), Files) = {}
    /\ include_map = build_include_map(AllIncludes(flat_lists), Files)
    /\ stack = DeepStart(flat_lists).stack
    /\ files_being_searched = DeepStart(flat_lists).files_being_searched
    /\ inclusive_lists = DeepStart(flat_lists).inclusive_lists
    /\ returned = DictEmpty
    /\ opts = [headers |-> FALSE, system |-> FALSE, duplicates |-> FALSE]
    /\ total_count = DictEmpty
    /\ printed = <<>>
    /\ call = NoCall
    /\ pending = <<>>
    /\ found = <<>>

ResolverNext == ResolveStep \/ ResolveReturn

ResolverSpec == ResolverInit /\ [][ResolverNext]_vars /\ WF_vars(ResolverNext)

(* C2: the resolver terminates on every include graph, cycles included: once *)
(* its loop has started it returns, no exception leaves it, and the mapping  *)
(* it returns has exactly the input files as keys.                           *)
C2_ResolverTerminates ==
    /\ (pc = "resolve") ~> (pc = "prune")
    /\ [](outcome = NoError)
    /\ [](Resolved => /\ DOMAIN inclusive_lists.at = Files
                      /\ Range(inclusive_lists.keys) = Files
                      /\ Len(inclusive_lists.keys) = Len(infiles))

\* the resolver returned from a graph with a self-inclusion and a longer cycle
C2_Witness_ReturnedFromCycles ==
    /\ Resolved
    /\ Len(infiles) = MaxFiles
    /\ \E F \in Files : Includes(F, F)
    /\ \E A \in Files, B \in Files : A # B /\ Includes(A, B) /\ Includes(B, A)

\* the includes read from the input files, all files together
Observed == UNION {Range(directives[F]) : F \in DOMAIN directives}

\* the includes whose unquoted name is the basename of two or more input files
SharedBy(includes) ==
    {x \in includes : Cardinality({p \in Files : p.name = unquoted(x)}) >= 2}

(* C4: in inclusive mode, once every file is parsed, the run fails with      *)
(* AmbiguousName exactly when an include read from some input file has an    *)
(* unquoted name equal to the basename of two or more input files; the       *)
(* exception names such an include and no list is returned or counted.       *)
(* Without such an include the builder does not fail, whatever basenames the *)
(* input files share.                                                        *)
C4_AmbiguousNameExactly ==
    /\ [][(pc = "parse" /\ cur > Len(infiles) /\ inclusive /\ pc' # "parse") =>
            /\ (outcome'.op = "AmbiguousName") <=> (SharedBy(Observed) # {})
            /\ SharedBy(Observed) # {} =>
                  /\ outcome'.arg \in SharedBy(Observed)
                  /\ pc' = "done"
                  /\ returned' = DictEmpty /\ inclusive_lists' = DictEmpty
            /\ SharedBy(Observed) = {} => (outcome' = NoError /\ pc' = "resolve")
         ]_vars
    /\ [](outcome.op = "AmbiguousName" =>
            /\ inclusive /\ pc = "done"
            /\ returned = DictEmpty /\ inclusive_lists = DictEmpty
            /\ printed = <<>>)

\* the run ended with AmbiguousName naming an include two input files answer to
C4_Witness_AmbiguousRaised ==
    /\ pc = "done"
    /\ outcome.op = "AmbiguousName"
    /\ Cardinality({p \in Files : p.name = unquoted(outcome.arg)}) = 2

\* a token between a pair of double quotes or between `<` and `>`
Delimited(t) ==
    /\ Len(t) >= 2
    /\ \/ t[1] = Q /\ t[Len(t)] = Q
       \/ t[1] = "<" /\ t[Len(t)] = ">"

(* C5: reading an `#include` line whose argument is not delimited by         *)
(* matching double quotes or by angle brackets ends the run with the         *)
(* malformed-directive error (ValueError) naming that token, in either mode, *)
(* and no list is returned for any file.                                     *)
C5_MalformedDirectiveFails ==
    [][\A l \in LinesOf(infiles) :
          (l.kind = "include" /\ ~Delimited(l.token) /\ ReadLine(l)) =>
              /\ pc' = "done"
              /\ outcome' = Raise("ValueError", l.token)
              /\ returned' = DictEmpty]_vars

(* C6: reading a line that after its leading whitespace does not start with  *)
(* `#`, or a `#` line whose first word after the `#` is not `include` (a     *)
(* lone `#` included), raises nothing and yields nothing.                    *)
C6_OtherLinesIgnored ==
    [][\A l \in LinesOf(infiles) :
          (l.kind \in {"plain", "directive"} /\ ReadLine(l)) =>
              /\ outcome' = NoError
              /\ pc' = "parse"
              /\ yielded' = yielded]_vars

(* C7: the direct-include list of every file is exactly the tokens that      *)
(* follow `include` on its include lines, in file order with duplicates      *)
(* kept; it is the file's output in direct-only mode; a file without include *)
(* lines has an empty list in either mode.                                   *)
C7_DirectListIsTheIncludeTokens ==
    /\ (pc = "parse" /\ cur <= Len(infiles)) => yielded = directives[infiles[cur]]
    /\ pc \in {"parse", "resolve", "prune"} =>
          \A F \in DOMAIN flat_lists.at : flat_lists.at[F] = directives[F]
    /\ (pc \in {"prune", "count", "done"} /\ outcome = NoError) =>
          /\ DOMAIN returned.at = Files
          /\ ~inclusive => \A F \in Files : returned.at[F] = directives[F]
          /\ \A F \in Files : directives[F] = <<>> => returned.at[F] = <<>>

\* direct-only mode returned a list with one include twice and an empty list
C7_Witness_DuplicateKept ==
    /\ pc = "prune" /\ ~inclusive
    /\ \E F \in Files : /\ Len(returned.at[F]) = 2
                        /\ returned.at[F][1] = returned.at[F][2]
    /\ \E G \in Files : directives[G] = <<>> /\ returned.at[G] = <<>>

\* an include has an entry in the include map exactly when one input file has
\* its unquoted name as basename, and the entry is that file
MapIsByBasename ==
    /\ DOMAIN include_map \subseteq AllIncludes(flat_lists)
    /\ \A x \in AllIncludes(flat_lists) :
          LET c == {p \in Files : p.name = unquoted(x)}
          IN  /\ c = {} => x \notin DOMAIN include_map
              /\ \A p \in c : c = {p} =>
                    (x \in DOMAIN include_map /\ include_map[x] = p)

\* the list of F holds the direct includes of every file F's resolved includes
\* map to
Expanded(F) ==
    \A i \in DOMAIN flat_lists.at[F] :
        LET x == flat_lists.at[F][i]
        IN  Resolves(x) =>
                Range(flat_lists.at[Target(x)]) \subseteq Range(inclusive_lists.at[F])

(* C8: an observed include has no entry in the include map when no input     *)
(* file's basename equals its unquoted name, and maps to the one input file  *)
(* whose basename does, whether written with quotes or with angle brackets;  *)
(* on an acyclic graph the resolver expands every resolved include, in both  *)
(* forms.                                                                    *)
C8_MapIgnoresSystemFlag ==
    (inclusive /\ pc \in {"resolve", "prune"}) =>
        /\ MapIsByBasename
        /\ (pc = "prune" /\ Acyclic) => \A F \in Files : Expanded(F)

(* C10: with duplicate removal on, no list that is counted holds an include  *)
(* twice, and the printed count of an include is the number of files kept in *)
(* the tally whose returned list contains it, at most the number of input    *)
(* files.                                                                    *)
C10_CountsAreFilesWhenDeduplicated ==
    (pc = "done" /\ outcome = NoError /\ opts.duplicates) =>
        LET kept == DOMAIN includes_lists.at
            holders(x) == {F \in kept : x \in Range(returned.at[F])}
        IN  /\ \A F \in kept : \A i, j \in DOMAIN includes_lists.at[F] :
                  i # j => includes_lists.at[F][i] # includes_lists.at[F][j]
            /\ \A n \in DOMAIN printed :
                  /\ printed[n].count = Cardinality(holders(printed[n].filename))
                  /\ printed[n].count <= Len(infiles)
                  /\ total_count.at[printed[n].filename] = printed[n].count
            /\ \A m, n \in DOMAIN printed :
                  m # n => printed[m].filename # printed[n].filename
            /\ \A F \in kept : \A x \in Range(returned.at[F]) :
                  (opts.system /\ is_system(x))
                      \/ \E n \in DOMAIN printed : printed[n].filename = x

\* a count of two or more was printed although a counted file held an include
\* twice
C10_Witness_CountedOncePerFile ==
    /\ pc = "done" /\ outcome = NoError /\ opts.duplicates
    /\ \E n \in DOMAIN printed : printed[n].count >= 2
    /\ \E F \in DOMAIN includes_lists.at :
          Len(returned.at[F]) > Cardinality(Range(returned.at[F]))

\* F is supplied before G on the command line
SuppliedBefore(F, G) ==
    \E i, j \in DOMAIN infiles : i < j /\ infiles[i] = F /\ infiles[j] = G

\* The three-file example: a source file including "b.h", b.h including
\* "c.h" and a system header, c.h including nothing.  src/a.c stands for
\* a.cpp and <v> for <vector>; both have the same suffix class and
\* delimiters.
ThreeFileInput ==
    /\ Files = {Path("src", NameA), Path("src", NameB), Path("src", NameC)}
    /\ directives[Path("src", NameA)] = <<Quoted(NameB)>>
    /\ directives[Path("src", NameB)] = <<Quoted(NameC), Angled(NameV)>>
    /\ directives[Path("src", NameC)] = <<>>

\* the example was counted in inclusive mode, over all three files, duplicates
\* removed, system headers kept
ThreeFileCounted ==
    /\ pc = "done" /\ outcome = NoError /\ inclusive
    /\ ThreeFileInput
    /\ opts = [headers |-> FALSE, system |-> FALSE, duplicates |-> TRUE]

\* what was printed, as include |-> count
Tally == [x \in {printed[n].filename : n \in DOMAIN printed} |->
            (CHOOSE n \in DOMAIN printed : printed[n].filename = x)]

PrintedCounts ==
    [x \in DOMAIN Tally |-> printed[Tally[x]].count]

RECURSIVE Sum(_)
Sum(ns) == IF ns = <<>> THEN 0 ELSE Head(ns) + Sum(Tail(ns))

\* how often x occurs in the list l
Occurrences(x, l) == Cardinality({i \in DOMAIN l : l[i] = x})

\* what one list adds to the count of x under the prune options
Contribution(x, l) ==
    IF opts.system /\ is_system(x) THEN 0
    ELSE IF opts.duplicates THEN (IF x \in Range(l) THEN 1 ELSE 0)
    ELSE Occurrences(x, l)

IsHeader(F) == suffix(F) \in HEADER_SUFFIXES

\* the inclusive lists of the resolver run on all input files, headers included
FullLists == get_deep_includes_lists([keys |-> infiles, at |-> directives])

C13_MappingNeverMutated ==
    (inclusive /\ pc \in {"prune", "count", "done"} /\ outcome = NoError) =>
        /\ inclusive_lists.keys = returned.keys
        /\ inclusive_lists.at = returned.at

(* C14: whenever an include that was read has the basename of two or more  *)
(* input files, the run aborts with AmbiguousName before any counts are     *)
(* produced, in inclusive and in direct-only mode alike.                    *)
C14_AmbiguousAbortsInEitherMode ==
    /\ (pc = "done" /\ outcome = NoError) => SharedBy(Observed) = {}
    /\ outcome.op = "AmbiguousName" => (total_count = DictEmpty /\ printed = <<>>)

\* the list `part` stands in `whole` as one block
IsBlock(part, whole) ==
    \E k \in 0..(Len(whole) - Len(part)) : SubSeq(whole, k + 1, k + Len(part)) = part

\* the edge F -> G closes a cycle
ClosesCycle(F, G) == G = F \/ Reaches(G, F)

(* C15: for a direct include of F that resolves to G, the list of G is left *)
(* out of the inclusive list of F only when the edge F -> G closes a cycle; *)
(* an edge that closes none contributes the whole list of G, after F's      *)
(* direct includes.                                                         *)
C15_OnlyCycleEdgesAreLeftOut ==
    Resolved =>
        \A F \in Files, G \in Files :
            (Includes(F, G) /\ ~ClosesCycle(F, G)) =>
                IsBlock(inclusive_lists.at[G],
                        SubSeq(inclusive_lists.at[F], Len(flat_lists.at[F]) + 1,
                               Len(inclusive_lists.at[F])))

\* 0 Unvisited, 1 InProgress, 2 Resolved
Progress(searched, lists, F) ==
    IF Has(lists, F) THEN 2 ELSE IF F \in searched THEN 1 ELSE 0

(* C16: during resolution every input file moves Unvisited -> InProgress -> *)
(* Resolved, one stage at a time and never backwards; a frame is pushed     *)
(* only for a file that is Unvisited, so no file is on the stack twice; the *)
(* inclusive list of a file is assigned once and no later step of the       *)
(* resolver changes it.                                                     *)
C16_FilesOnlyMoveForward ==
    [][(pc \in {"parse", "resolve"} /\ inclusive) =>
          /\ \A F \in Files :
                LET before == Progress(files_being_searched, inclusive_lists, F)
                    after  == Progress(files_being_searched', inclusive_lists', F)
                IN  /\ before <= after /\ after <= before + 1
                    /\ before = 2 => inclusive_lists'.at[F] = inclusive_lists.at[F]
          /\ \A i \in DOMAIN stack' :
                i > Len(stack) =>
                    Progress(files_being_searched, inclusive_lists, stack'[i].path) = 0
          /\ \A i, j \in DOMAIN stack' : i # j => stack'[i].path # stack'[j].path
      ]_vars

\* in the middle of the loop: one file Resolved, another still InProgress
C16_Witness_OneResolvedOneInProgress ==
    /\ pc = "resolve"
    /\ \E F \in Files, G \in Files :
          /\ Progress(files_being_searched, inclusive_lists, F) = 2
          /\ Progress(files_being_searched, inclusive_lists, G) = 1
          /\ Len(inclusive_lists.at[F]) > Len(flat_lists.at[F])

\* get_flat_includes_lists has returned: every input file was read to its end
AllParsed ==
    /\ pc \in {"parse", "resolve"}
    /\ outcome = NoError
    /\ cur > Len(infiles)
    /\ flat_lists.keys = infiles
    /\ \A F \in Files : flat_lists.at[F] = directives[F]

\* the step is one of _build_include_map or of the resolver
BuilderOrResolverStep ==
    \/ pc = "resolve"
    \/ pc' = "resolve"
    \/ outcome'.op = "AmbiguousName" /\ outcome = NoError
    \/ include_map' # include_map
    \/ stack' # stack
    \/ files_being_searched' # files_being_searched

(* C17: no step of the include-map builder or of the resolver happens       *)
(* before every input file has been read and parsed to its end, and when    *)
(* reading or parsing a file fails neither of them runs at all.             *)
C17_StrictBarrier ==
    /\ [][BuilderOrResolverStep => AllParsed]_vars
    /\ [](outcome.op \in {"ValueError", "IndexError"} =>
              /\ pc = "done"
              /\ include_map = <<>> /\ stack = <<>>
              /\ files_being_searched = {} /\ inclusive_lists = DictEmpty)

\* an inclusive run over several files ended in the parser; nothing was built
C17_Witness_ParseFailedNothingBuilt ==
    /\ pc = "done" /\ inclusive
    /\ outcome.op = "ValueError"
    /\ Len(infiles) = MaxFiles
    /\ include_map = <<>> /\ stack = <<>> /\ inclusive_lists = DictEmpty

StackFiles == {stack[i].path : i \in DOMAIN stack}

(* C18: in every state of the resolver loop the files on the stack are      *)
(* pairwise distinct, they are exactly files_being_searched, no file being  *)
(* searched is a key of inclusive_lists, both are input files, the stack is *)
(* no deeper than the number of input files, and removing the popped file   *)
(* from files_being_searched never fails.                                   *)
C18_StackInvariant ==
    /\ pc = "resolve" =>
          /\ \A i, j \in DOMAIN stack : i # j => stack[i].path # stack[j].path
          /\ StackFiles = files_being_searched
          /\ files_being_searched \cap DOMAIN inclusive_lists.at = {}
          /\ files_being_searched \cup DOMAIN inclusive_lists.at \subseteq Files
          /\ Len(stack) <= Len(infiles)
    /\ outcome.op # "KeyError"

\* the loop is half way: a full-depth stack was popped once
C18_Witness_PoppedOnce ==
    /\ pc = "resolve"
    /\ Len(infiles) = MaxFiles
    /\ Len(stack) = MaxFiles - 1
    /\ Cardinality(DOMAIN inclusive_lists.at) = 1

(* C19: constructing an Include succeeds exactly for tokens enclosed by a   *)
(* matching pair of delimiters, two double quotes or `<` and `>`, and fails *)
(* for every other token, those of a single character included; for a       *)
(* constructed Include is_system() is true exactly when the delimiters are  *)
(* angle brackets and unquoted() is the token without its first and last    *)
(* character.                                                               *)
C19_IncludeExactlyWhenDelimited ==
    [][\A l \in LinesOf(infiles) :
          (l.kind = "include" /\ ReadLine(l)) =>
              LET t == l.token IN
              IF Delimited(t)
              THEN /\ yielded' = Append(yielded, t)
                   /\ outcome' = NoError
                   /\ is_system(t) <=> (t[1] = "<" /\ t[Len(t)] = ">")
                   /\ Len(unquoted(t)) = Len(t) - 2
                   /\ \A i \in DOMAIN unquoted(t) : unquoted(t)[i] = t[i + 1]
              ELSE /\ outcome'.op = "ValueError"
                   /\ yielded' = <<>>]_vars

RECURSIVE iter_input_files_flat(_, _)
\* what the flat walk yields for args and exclude, with no exclude_dir at all
iter_input_files_flat(args, exclude) ==
    IF args = <<>> THEN <<>>
    ELSE LET path == Head(args)
             tail == iter_input_files_flat(Tail(args), exclude)
         IN  IF is_dir(path) THEN tail
             ELSE IF /\ suffix(path) \in CPP_SUFFIXES
                     /\ \A pattern \in exclude : ~match(path, pattern)
                  THEN <<path>> \o tail
             ELSE tail

(* C20: every path iter_input_files yields is not a directory, has a suffix *)
(* of CPP_SUFFIXES and matches no exclude pattern.  With recursive false no *)
(* directory is descended into (every path visited is an argument) and the  *)
(* result is what the arguments and exclude alone determine, whatever       *)
(* exclude_dir holds.  With recursive true no directory listed on the way   *)
(* to a yielded file matches an exclude_dir pattern.                        *)
C20_YieldedFilesAreWanted ==
    pc \in {"collect", "collected"} =>
        /\ \A i \in DOMAIN found :
              /\ ~is_dir(found[i].path)
              /\ suffix(found[i].path) \in CPP_SUFFIXES
              /\ \A pattern \in call.exclude : ~match(found[i].path, pattern)
              /\ \A d \in found[i].via :
                    \A pattern \in call.exclude_dir : ~match(d, pattern)
        /\ ~call.recursive =>
              /\ \A i \in DOMAIN pending :
                    pending[i].via = {} /\ pending[i].path \in Range(call.args)
              /\ \A i \in DOMAIN found :
                    found[i].via = {} /\ found[i].path \in Range(call.args)
              /\ pc = "collected" =>
                    [i \in DOMAIN found |-> found[i].path]
                        = iter_input_files_flat(call.args, call.exclude)

\* a recursive walk from src with build excluded and *.h files excluded has
\* ended: a.c was found under src, nothing under build, no header
C20_Witness_WalkedWithExcludes ==
    /\ pc = "collected"
    /\ call.recursive
    /\ call.args = <<FsPath(<<>>, NameSrc)>>
    /\ call.exclude = {<< <<"*", ".", "h">> >>}
    /\ call.exclude_dir = {<<NameBuild>>}
    /\ found = <<Entry(FsPath(<<NameSrc>>, NameA), {FsPath(<<>>, NameSrc)})>>

====
